---- MODULE Spec2Model ----
(***************************************************************************)
(* Model of modules/video_output/drm_display.c: the KMS/DRM video output.  *)
(* Chroma negotiation over the static fourccmatching table, creation and   *)
(* destruction of the MAXHWBUF dumb buffers, and the Prepare/Display       *)
(* page-flipping cycle.  The DRM device is modelled by the sets of live    *)
(* dumb-buffer handles, framebuffer objects and mappings, with the kernel's*)
(* lowest-free-id allocation.                                              *)
(***************************************************************************)
EXTENDS Integers, Sequences, FiniteSets, TLC

(* ------------------------------ bounds --------------------------------- *)
MaxPlanes == 2      \* planes reported by drmModeGetPlaneResources
MaxOpens == 2       \* Open calls in one process
MaxCommits == 4     \* successful drmModeSetPlane calls counted per session

(* ------------------------- program constants --------------------------- *)
MAXHWBUF == 3
PICTURE_PLANE_MAX == 5
ADDFB_PLANES == 4          \* ARRAY_SIZE(handles) in CreateFB
tile_width == 512
tile_height == 16
Buffers == 0 .. (MAXHWBUF - 1)
MAP_FAILED == -1
None == ""                 \* a zero fourcc / unset option string

(* vlc_align(v, align): round v up to a multiple of align *)
VlcAlign(v, align) == ((v + align - 1) \div align) * align

(* vlc_fourcc_IsYUV: the colour family of a VLC chroma *)
IsYUV(vlc) == vlc \in {"I420", "P010", "NV12", "YUY2", "YVYU", "UYVY", "VYUY"}

(* ------------------------- the static catalog -------------------------- *)
Entry(drm, vlc, yuv) ==
    [drm |-> drm, vlc |-> vlc, plane_id |-> 0, present |-> FALSE, isYUV |-> yuv]

fourccmatchingInit ==
    << Entry("XR24", "RV32", FALSE),
       Entry("RG16", "RV16", FALSE),
       Entry("P010", "P010", TRUE),
       Entry("NV12", "NV12", TRUE),
       Entry("YUYV", "YUY2", TRUE),
       Entry("YVYU", "YVYU", TRUE),
       Entry("UYVY", "UYVY", TRUE),
       Entry("VYUY", "VYUY", TRUE) >>

ARRAY_SIZE == Len(fourccmatchingInit)

(* for (; c < ARRAY_SIZE(fourccmatching); c++) if (hit) break;  hits is the *)
(* set of indices where the loop's test holds.  The result is the value    *)
(* the loop variable is left with: the first hit at or after c, else       *)
(* ARRAY_SIZE + 1 (or c itself when the loop never ran).                   *)
LoopFrom(cat, c, hits) ==
    LET S == {i \in c .. Len(cat) : i \in hits}
    IN  IF S # {} THEN CHOOSE i \in S : \A j \in S : i <= j
        ELSE IF c > Len(cat) THEN c ELSE Len(cat) + 1

Indices(cat) == 1 .. Len(cat)

(* mutant: a later plane overwrites the plane recorded first *)
CheckFourCCList_LastWriter(cat, drmfourcc, plane_id) ==
    LET i == LoopFrom(cat, 1, {k \in Indices(cat) : cat[k].drm = drmfourcc})
    IN  IF i > Len(cat) THEN cat
        ELSE [cat EXCEPT ![i] = [@ EXCEPT !.present = TRUE, !.plane_id = plane_id]]

CheckFourCCList(cat, drmfourcc, plane_id) ==
    LET i == LoopFrom(cat, 1, {k \in Indices(cat) : cat[k].drm = drmfourcc})
    IN  IF i > Len(cat) THEN cat
        ELSE IF cat[i].present THEN cat
        ELSE [cat EXCEPT ![i] = [@ EXCEPT !.present = TRUE, !.plane_id = plane_id]]

(* ------------------------------ the scan -------------------------------- *)
(* An intermediate result that is used more than once is bound through a   *)
(* singleton set, CHOOSE r \in {Body(x) : x \in {Expr}} : TRUE, so that it  *)
(* is computed once.                                                       *)

(* mutant: the forced chroma binds to a plane whatever the plane's format *)
ForcedMatch_AnyFormat(forced, plane_id, f, drm_fourcc) ==
    forced /\ plane_id = 0

(* sys->forced_drm_fourcc && sys->plane_id == 0 && format == sys->drm_fourcc *)
ForcedMatch(forced, plane_id, f, drm_fourcc) ==
    forced /\ plane_id = 0 /\ f = drm_fourcc

(* one iteration of the loop over plane->formats; st = [cat, plane_id]      *)
FormatStep(st, plane_id, f, forced, drm_fourcc) ==
    [cat |-> CheckFourCCList(st.cat, f, plane_id),
     plane_id |-> IF ForcedMatch(forced, st.plane_id, f, drm_fourcc)
                  THEN plane_id ELSE st.plane_id]

RECURSIVE ScanFormats(_, _, _, _, _)
ScanFormats(st, plane, i, forced, drm_fourcc) ==
    IF i > Len(plane.formats) THEN st
    ELSE CHOOSE r \in { ScanFormats(st1, plane, i + 1, forced, drm_fourcc) :
                        st1 \in {FormatStep(st, plane.plane_id, plane.formats[i],
                                            forced, drm_fourcc)} } : TRUE

(* (plane->possible_crtcs & (1 << crtc_index)) != 0.  With crtc_index = -1 *)
(* the shift is undefined; shiftUB is the set of bits the build produces.  *)
CrtcBitTest(plane, crtc_index, shiftUB) ==
    IF crtc_index >= 0 THEN crtc_index \in plane.possible_crtcs
    ELSE (plane.possible_crtcs \cap shiftUB) # {}

ScanResult(st, failed) == [cat |-> st.cat, plane_id |-> st.plane_id, failed |-> failed]

(* the loop over plane_res->planes; result [cat, plane_id, failed]          *)
RECURSIVE ScanPlanes(_, _, _, _, _, _)
ScanPlanes(st, planes, c, forced, drm_fourcc, dev) ==
    IF c > Len(planes) THEN ScanResult(st, FALSE)
    ELSE IF ~(planes[c].ok /\ Len(planes[c].formats) > 0) THEN ScanResult(st, TRUE)
    ELSE IF ~CrtcBitTest(planes[c], dev.crtc_index, dev.shiftUB)
    THEN ScanPlanes(st, planes, c + 1, forced, drm_fourcc, dev)
    ELSE CHOOSE r \in { ScanPlanes(st1, planes, c + 1, forced, drm_fourcc, dev) :
                        st1 \in {ScanFormats(st, planes[c], 1, forced, drm_fourcc)} } : TRUE

(* sys->plane_id = 0, then the scan unless plane_res is NULL or empty       *)
Scan(sysin, catin, dev) ==
    IF ~dev.plane_res_null /\ Len(dev.plane_res) > 0
    THEN ScanPlanes([cat |-> catin, plane_id |-> 0], dev.plane_res, 1,
                    sysin.forced_drm_fourcc, sysin.drm_fourcc, dev)
    ELSE [cat |-> catin, plane_id |-> 0, failed |-> FALSE]

(* --------------------------- the negotiation ---------------------------- *)
(* the opposite-family loop, as written: it starts from the c the          *)
(* same-family loop left behind and tests !isYUV != YUVFormat              *)
OppositeLoop(cat, c, YUVFormat) ==
    LoopFrom(cat, c, {k \in Indices(cat) :
                         ((~cat[k].isYUV) # YUVFormat) /\ cat[k].present})

Adopt(s, e) ==
    [s EXCEPT !.drm_fourcc = IF s.forced_drm_fourcc THEN @ ELSE e.drm,
              !.plane_id = IF s.forced_drm_fourcc THEN @ ELSE e.plane_id,
              !.vlc_fourcc = e.vlc]

Negotiated(r, s, cat, tier) == [ret |-> r, sys |-> s, cat |-> cat, tier |-> tier]

(* mutant: with a forced DRM chroma the plane is taken from the present    *)
(* marking of the table, as the unforced tiers do                          *)
ForcedTier_FromCatalog(s1, cat) ==
    LET c == LoopFrom(cat, 1, {k \in Indices(cat) : cat[k].drm = s1.drm_fourcc})
    IN  IF c <= Len(cat) /\ cat[c].present
        THEN Negotiated(TRUE, [s1 EXCEPT !.vlc_fourcc = cat[c].vlc,
                                         !.plane_id = cat[c].plane_id], cat, "forced")
        ELSE Negotiated(s1.plane_id # 0, s1, cat, "forced")

(* if (sys->forced_drm_fourcc) { ... } *)
ForcedTier(s1, cat) ==
    LET c == LoopFrom(cat, 1, {k \in Indices(cat) : cat[k].drm = s1.drm_fourcc})
    IN  Negotiated(s1.plane_id # 0,
                   IF c <= Len(cat) THEN [s1 EXCEPT !.vlc_fourcc = cat[c].vlc] ELSE s1,
                   cat, "forced")

(* mutant: the exact-match tier adopts the first present entry of the      *)
(* table instead of the entry it hit                                       *)
ExactTier_FirstPresent(s1, cat, c2) ==
    Negotiated(TRUE,
               Adopt(s1, cat[LoopFrom(cat, 1, {k \in Indices(cat) :
                                                  cat[k].present \/ k = c2})]),
               cat, "exact")

(* the body of the exact-match loop at its hit c2 *)
ExactTier(s1, cat, c2) ==
    IF ~s1.forced_drm_fourcc /\ cat[c2].present
    THEN Negotiated(cat[c2].drm # None,
                    [s1 EXCEPT !.drm_fourcc = cat[c2].drm, !.plane_id = cat[c2].plane_id],
                    cat, "exact")
    ELSE Negotiated(s1.drm_fourcc # None, s1, cat, "exact")

(* the same-family loop, then the opposite-family loop *)
FamilyTiers(s1, cat, YUVFormat) ==
    LET c3 == LoopFrom(cat, 1, {k \in Indices(cat) :
                                   cat[k].isYUV = YUVFormat /\ cat[k].present})
        c4 == OppositeLoop(cat, c3, YUVFormat)
    IN  IF c3 <= Len(cat) THEN Negotiated(TRUE, Adopt(s1, cat[c3]), cat, "family")
        ELSE IF c4 <= Len(cat) THEN Negotiated(TRUE, Adopt(s1, cat[c4]), cat, "opposite")
        ELSE Negotiated(FALSE, s1, cat, "none")

(* mutant: a plane query that fails ends the scan but not the negotiation *)
Tiers_IgnoreScanFailure(s1, cat, failed) ==
    IF s1.forced_drm_fourcc THEN ForcedTier(s1, cat)
    ELSE LET c2 == LoopFrom(cat, 1, {k \in Indices(cat) : cat[k].vlc = s1.vlc_fourcc})
         IN  IF c2 <= Len(cat) THEN ExactTier(s1, cat, c2)
             ELSE FamilyTiers(s1, cat, IsYUV(s1.vlc_fourcc))

(* what follows the scan: s1 is sys after it, cat the table after it        *)
Tiers(s1, cat, failed) ==
    IF failed THEN Negotiated(FALSE, s1, cat, "scan")
    ELSE IF s1.forced_drm_fourcc THEN ForcedTier(s1, cat)
    ELSE LET c2 == LoopFrom(cat, 1, {k \in Indices(cat) : cat[k].vlc = s1.vlc_fourcc})
         IN  IF c2 <= Len(cat) THEN ExactTier(s1, cat, c2)
             ELSE FamilyTiers(s1, cat, IsYUV(s1.vlc_fourcc))

(* ChromaNegotiation: returns [ret, sys, cat, tier]                         *)
ChromaNegotiation(sysin, catin, dev) ==
    IF ~dev.resources THEN Negotiated(FALSE, sysin, catin, "resources")
    ELSE CHOOSE r \in { Tiers([sysin EXCEPT !.plane_id = sc.plane_id], sc.cat, sc.failed) :
                        sc \in {Scan(sysin, catin, dev)} } : TRUE

(* ------------------------------ the state ------------------------------- *)
VARIABLES
    fourccmatching,  \* the static table: lifetime = process
    sys,             \* vout_display_sys_t of the current vout_display_t
    picture,         \* *sys->picture: [live, p[PICTURE_PLANE_MAX]]
    drm,             \* the device: live handles, framebuffers, mappings, plane
    vd,              \* the vout_display_t: status, ops, options, window, source
    io,              \* device calls issued by the handler that ran last
    ret,             \* the handler that ran last and what it returned
    hist             \* Open calls so far; framebuffers committed this session;
                     \* whether some Open shifted by a negative crtc_index

vars == <<fourccmatching, sys, picture, drm, vd, io, ret, hist>>

ZeroFn(S) == [x \in S |-> 0]
Planes == 0 .. (PICTURE_PLANE_MAX - 1)

(* vlc_obj_calloc(): every member zero *)
sysZero ==
    [width |-> 0, height |-> 0, stride |-> 0, size |-> 0,
     offsets |-> ZeroFn(Planes),
     handle |-> ZeroFn(Buffers), map |-> ZeroFn(Buffers), fb |-> ZeroFn(Buffers),
     picture |-> 0, front_buf |-> 0,
     forced_drm_fourcc |-> FALSE, drm_fourcc |-> None, vlc_fourcc |-> None,
     plane_id |-> 0]

NullPtr == [base |-> 0, off |-> 0]
pictureNone == [live |-> FALSE,
                p |-> [i \in Planes |-> [p_pixels |-> NullPtr, i_lines |-> 0, i_pitch |-> 0]]]

(* reject: the release requests the device will answer with an error       *)
drmInit == [dumb |-> {}, fbs |-> {}, maps |-> {}, plane_fb |-> 0, reject |-> {}]

(* the kernel hands out the lowest id that is not in use *)
LowestFree(used) == CHOOSE n \in 1 .. (Cardinality(used) + 1) :
                        n \notin used /\ \A k \in 1 .. (n - 1) : k \in used

FbIds(d) == {f.id : f \in d.fbs}
MapAddrs(d) == {m.addr : m \in d.maps}

(* A machine value m = [sys, drm, io] is threaded through the device calls. *)
Call(call, arg, res, ok) == [call |-> call, arg |-> arg, res |-> res, ok |-> ok]
Log(m, call, arg, res, ok) == [m EXCEPT !.io = Append(@, Call(call, arg, res, ok))]

(* the device call issued last *)
Last(m) == m.io[Len(m.io)]

(* ------------------------------ DestroyFB ------------------------------- *)
(* a release succeeds when its target is live and the device does not      *)
(* reject it; a release that fails changes nothing.  The result logged is  *)
(* negative for a request the device rejected, 0 otherwise.                *)
Rejected(m, call, arg) == [call |-> call, arg |-> arg] \in m.drm.reject
Answer(m, call, arg) == IF Rejected(m, call, arg) THEN -1 ELSE 0

MunmapOk(m, addr) == addr \in MapAddrs(m.drm) /\ ~Rejected(m, "munmap", addr)
Munmap(m, addr) ==
    Log([m EXCEPT !.drm.maps = IF MunmapOk(m, addr) THEN {x \in @ : x.addr # addr} ELSE @],
        "munmap", addr, Answer(m, "munmap", addr), MunmapOk(m, addr))

RmFBOk(m, id) == id \in FbIds(m.drm) /\ ~Rejected(m, "RmFB", id)
RmFB(m, id) ==
    Log([m EXCEPT !.drm.fbs = IF RmFBOk(m, id) THEN {x \in @ : x.id # id} ELSE @,
                  !.drm.plane_fb = IF RmFBOk(m, id) /\ @ = id THEN 0 ELSE @],
        "RmFB", id, Answer(m, "RmFB", id), RmFBOk(m, id))

DestroyDumbOk(m, h) == h \in m.drm.dumb /\ ~Rejected(m, "DESTROY_DUMB", h)
DestroyDumb(m, h) ==
    Log([m EXCEPT !.drm.dumb = IF DestroyDumbOk(m, h) THEN @ \ {h} ELSE @],
        "DESTROY_DUMB", h, Answer(m, "DESTROY_DUMB", h), DestroyDumbOk(m, h))

(* mutant: DestroyFB gives up at the first release that fails *)
DestroyFB_StopOnError(m, buf) ==
    CHOOSE r \in { IF ~Last(m1).ok THEN m1
                   ELSE CHOOSE q \in { IF ~Last(m2).ok THEN m2
                                       ELSE DestroyDumb(m2, m.sys.handle[buf]) :
                                       m2 \in {RmFB(m1, m.sys.fb[buf])} } : TRUE :
                   m1 \in {Munmap(m, m.sys.map[buf])} } : TRUE

(* munmap(sys->map[buf]); drmModeRmFB(sys->fb[buf]); DESTROY_DUMB(handle[buf]) *)
DestroyFB(m, buf) ==
    CHOOSE r \in { DestroyDumb(m2, m.sys.handle[buf]) :
                   m2 \in { RmFB(m1, m.sys.fb[buf]) :
                            m1 \in {Munmap(m, m.sys.map[buf])} } } : TRUE

RECURSIVE DestroyRange(_, _, _)
(* for (c = from; c < to; c++) DestroyFB(vd, c) *)
DestroyRange(m, from, to) ==
    IF from >= to THEN m
    ELSE CHOOSE r \in { DestroyRange(m1, from + 1, to) :
                        m1 \in {DestroyFB(m, from)} } : TRUE

CustomDestroyPicture(m) == DestroyRange(m, 0, MAXHWBUF)

(* ------------------------------- CreateFB ------------------------------- *)
TwoPlane16(f) == f \in {"P010", "P012", "P016"}

(* uint32_t arithmetic.  The members of sys and of create_req are 32 bits  *)
(* wide, so what is stored is the product modulo 2^32.  The product is     *)
(* computed on 16-bit halves, every intermediate value below 2^31; x, y    *)
(* are halves (below 2^16), a and b are below 2^31.                        *)
Half == 65536
Mul16Lo(x, y) == (x * (y % 256) + ((x * (y \div 256)) % 256) * 256) % Half
Mul16Hi(x, y) ==
    ((x * (y \div 256)) \div 256)
    + ((((x * (y \div 256)) % 256) * 256 + x * (y % 256)) \div Half)
MulU32(a, b) ==
    ((Mul16Hi(a % Half, b % Half) + Mul16Lo(a \div Half, b % Half)
                                  + Mul16Lo(a % Half, b \div Half)) % Half) * Half
    + Mul16Lo(a % Half, b % Half)

(* the switch on sys->drm_fourcc: [stride, off1, height]                   *)
Layout(s) ==
    IF TwoPlane16(s.drm_fourcc)
    THEN [stride |-> VlcAlign(MulU32(s.width, 2), tile_width),
          off1 |-> MulU32(VlcAlign(MulU32(s.width, 2), tile_width),
                          VlcAlign(s.height, tile_height)),
          sets1 |-> TRUE,
          height |-> MulU32(2, VlcAlign(s.height, tile_height))]
    ELSE IF s.drm_fourcc = "NV12"
    THEN [stride |-> VlcAlign(s.width, tile_width),
          off1 |-> MulU32(VlcAlign(s.width, tile_width),
                          VlcAlign(s.height, tile_height)),
          sets1 |-> TRUE,
          height |-> MulU32(2, VlcAlign(s.height, tile_height))]
    ELSE [stride |-> VlcAlign(MulU32(s.width, 4), tile_width),
          off1 |-> 0, sets1 |-> FALSE,
          height |-> VlcAlign(s.height, tile_height)]

(* for (i = 0; i < ARRAY_SIZE(handles) && (sys->offsets[i] || i < 1); i++)  *)
RECURSIVE BoundPlanes(_, _)
BoundPlanes(offsets, i) ==
    IF i < ADDFB_PLANES /\ (offsets[i] # 0 \/ i < 1)
    THEN BoundPlanes(offsets, i + 1) ELSE i

(* `ret < 0' on a deviceRval: never true when the enum is unsigned          *)
RetNegative(r, enum_unsigned) == (~enum_unsigned) /\ r < 0

(* mutant: the result of mmap is never checked *)
MmapFailed_NoCheck(addr) == FALSE

(* sys->map[buf] == MAP_FAILED *)
MmapFailed(addr) == addr = MAP_FAILED

(* fail names the device call the device rejects, "none" when all succeed.  *)
(* the layout switch with lay its result, then DRM_IOCTL_MODE_CREATE_DUMB;  *)
(* the call's result is the handle, 0 when the call fails                   *)
CreateDumbWith(m, lay, h, fail) ==
    Log([m EXCEPT !.sys.stride = lay.stride,
                  !.sys.offsets[1] = IF lay.sets1 THEN lay.off1 ELSE @,
                  !.drm.dumb = IF fail # "create" THEN @ \cup {h} ELSE @],
        "CREATE_DUMB", [width |-> m.sys.width, height |-> lay.height],
        IF fail # "create" THEN h ELSE 0, fail # "create")

CreateDumb(m, fail) ==
    CHOOSE r \in { CreateDumbWith(m, lay, LowestFree(m.drm.dumb), fail) :
                   lay \in {Layout(m.sys)} } : TRUE

(* sys->size = create_req.size; sys->handle[buf] = create_req.handle        *)
StoreHandle(m, buf) ==
    [m EXCEPT !.sys.size = IF Last(m).ok THEN m.sys.width * 4 * Last(m).arg.height ELSE 0,
              !.sys.handle[buf] = Last(m).res]

(* drmModeAddFB2 with n planes filled in; id is the framebuffer id granted  *)
AddFB2With(m, buf, n, id, aok) ==
    Log([m EXCEPT !.drm.fbs = IF aok THEN @ \cup {[id |-> id, handle |-> m.sys.handle[buf]]}
                              ELSE @,
                  !.sys.fb[buf] = IF aok THEN id ELSE @],
        "AddFB2",
        [fourcc |-> m.sys.drm_fourcc, nplanes |-> n, pitch |-> m.sys.stride,
         offsets |-> [i \in 0 .. (ADDFB_PLANES - 1) |->
                         IF i < n THEN m.sys.offsets[i] ELSE 0]],
        IF aok THEN id ELSE 0, aok)

AddFB2(m, buf, fail) ==
    CHOOSE r \in { AddFB2With(m, buf, n, LowestFree(FbIds(m.drm)),
                              fail # "addfb" /\ m.sys.handle[buf] \in m.drm.dumb) :
                   n \in {BoundPlanes(m.sys.offsets, 0)} } : TRUE

(* DRM_IOCTL_MODE_MAP_DUMB *)
MapDumb(m, buf, fail) == Log(m, "MAP_DUMB", m.sys.handle[buf], 0, fail # "mapdumb")

(* sys->map[buf] = mmap(...) *)
MmapWith(m, buf, addr) ==
    Log([m EXCEPT !.drm.maps = IF addr # MAP_FAILED
                               THEN @ \cup {[addr |-> addr, handle |-> m.sys.handle[buf]]}
                               ELSE @,
                  !.sys.map[buf] = addr],
        "mmap", m.sys.handle[buf], addr, addr # MAP_FAILED)

Mmap(m, buf, fail) ==
    CHOOSE r \in { MmapWith(m, buf, addr) :
                   addr \in {IF fail # "mmap" THEN LowestFree(MapAddrs(m.drm))
                             ELSE MAP_FAILED} } : TRUE

(* err_destroy: *)
ErrDestroy(m, buf) == [m |-> DestroyDumb(m, m.sys.handle[buf]), ret |-> "drvFail"]

(* err_fb: *)
ErrFb(m, buf) ==
    CHOOSE r \in { ErrDestroy([m1 EXCEPT !.sys.fb[buf] = 0], buf) :
                   m1 \in {RmFB(m, m.sys.fb[buf])} } : TRUE

(* CreateFB from the test of mmap's result *)
AfterMmap(m, buf) ==
    IF MmapFailed(m.sys.map[buf]) THEN ErrFb(m, buf) ELSE [m |-> m, ret |-> "drvSuccess"]

(* CreateFB from the test of MAP_DUMB's result *)
AfterMapDumb(m, buf, fail) ==
    IF ~Last(m).ok THEN ErrFb(m, buf)
    ELSE CHOOSE r \in { AfterMmap(m5, buf) : m5 \in {Mmap(m, buf, fail)} } : TRUE

(* CreateFB from the test of AddFB2's result *)
AfterAddFB2(m, buf, fail) ==
    IF ~Last(m).ok THEN ErrDestroy(m, buf)
    ELSE CHOOSE r \in { AfterMapDumb(m4, buf, fail) : m4 \in {MapDumb(m, buf, fail)} } : TRUE

(* CreateFB from the test of CREATE_DUMB's result *)
AfterCreateDumb(m, buf, fail, enum_unsigned) ==
    IF RetNegative(IF Last(m).ok THEN 0 ELSE -1, enum_unsigned)
    THEN [m |-> m, ret |-> "drvFail"]
    ELSE CHOOSE r \in { AfterAddFB2(m3, buf, fail) :
                        m3 \in { AddFB2(m2, buf, fail) :
                                 m2 \in {StoreHandle(m, buf)} } } : TRUE

(* enum_unsigned is the build's choice of the type underlying deviceRval.  *)
(* Result [m, ret] with ret in {"drvSuccess", "drvFail"}.                   *)
CreateFB(m, buf, fail, enum_unsigned) ==
    CHOOSE r \in { AfterCreateDumb(m1, buf, fail, enum_unsigned) :
                   m1 \in {CreateDumb(m, fail)} } : TRUE

(* ------------------------ inputs of one session ------------------------- *)
PlaneKinds ==
    { [formats |-> <<"AR24", "XR24">>, possible_crtcs |-> {0}, ok |-> TRUE],
      [formats |-> <<"NV12">>, possible_crtcs |-> {0}, ok |-> TRUE],
      [formats |-> <<"NV12">>, possible_crtcs |-> {1, 31}, ok |-> TRUE],
      [formats |-> <<>>, possible_crtcs |-> {0}, ok |-> FALSE] }

(* drmModeGetPlaneResources: up to MaxPlanes planes, ids 31, 32, ...        *)
PlaneLists ==
    UNION { { [i \in 1 .. n |-> [plane_id |-> 30 + i, formats |-> l[i].formats,
                                 possible_crtcs |-> l[i].possible_crtcs,
                                 ok |-> l[i].ok]] : l \in [1 .. n -> PlaneKinds] }
            : n \in 0 .. MaxPlanes }

Window(kms, res, crtc, ub, prnull, planes) ==
    [kms |-> kms, resources |-> res, crtc_index |-> crtc, shiftUB |-> ub,
     plane_res_null |-> prnull, plane_res |-> planes]

(* the windows modelled: the CRTC found with every plane list; the CRTC   *)
(* not found (crtc_index -1) with the plane lists of at most one plane;   *)
(* not a KMS window; no resources; no plane resources                     *)
Windows ==
    { Window(TRUE, TRUE, 0, {}, FALSE, l) : l \in PlaneLists }
    \cup { Window(TRUE, TRUE, -1, ub, FALSE, l) :
             ub \in {{}, {31}}, l \in {x \in PlaneLists : Len(x) <= 1} }
    \cup { Window(FALSE, TRUE, 0, {}, FALSE, <<>>),
           Window(TRUE, FALSE, 0, {}, FALSE, <<>>),
           Window(TRUE, TRUE, 0, {}, TRUE, <<>>) }

Sources == {"I420", "P010", "RV24"}          \* vd->source->i_chroma
KmsVlcOptions == {None, "NV12"}              \* --kms-vlc-chroma
KmsDrmOptions == {None, "NV12", "AR24"}      \* --kms-drm-chroma
Dims == {<<640, 480>>}                       \* visible width, height
(* the option triples modelled: with a forced DRM chroma, one source chroma *)
Options == { o \in [kv : KmsVlcOptions, kd : KmsDrmOptions, src : Sources] :
                o.kd # None => o.src = "I420" }

KnownVlc == {"I420", "P010", "NV12", "RV24", "RV32", "RV16",
             "YUY2", "YVYU", "UYVY", "VYUY"}
(* vlc_fourcc_GetCodecFromString: 0 for a string that names no codec       *)
GetCodecFromString(str) == IF str \in KnownVlc THEN str ELSE None

Steps == {"create", "addfb", "mapdumb", "mmap"}
(* which buffer's which device call the device rejects, or the picture     *)
Fails == { [k |-> k, step |-> st] : k \in Buffers, st \in Steps }
         \cup { [k |-> MAXHWBUF, step |-> "none"], [k |-> MAXHWBUF, step |-> "picture"] }

vdNone == [status |-> "none", ops |-> FALSE, kms_vlc |-> None, kms_drm |-> None,
           source |-> None, window |-> Window(FALSE, FALSE, 0, {}, FALSE, <<>>),
           width |-> 0, height |-> 0]

histInit == [opens |-> 0, committed |-> <<>>, undefined |-> FALSE]
Ret(op, val) == [op |-> op, val |-> val]

Init ==
    /\ fourccmatching = fourccmatchingInit
    /\ sys = sysZero
    /\ picture = pictureNone
    /\ drm = drmInit
    /\ vd = vdNone
    /\ io = <<>>
    /\ ret = Ret("none", "none")
    /\ hist = histInit

(* ------------------------------- handlers ------------------------------- *)
(* Close: result machine and picture                                       *)
CloseBody(m, pic) ==
    [m |-> CustomDestroyPicture(m),
     picture |-> IF m.sys.picture # 0 THEN [pic EXCEPT !.live = FALSE] ELSE pic]

(* the chroma options of Open                                              *)
OpenOptions(s, kv, kd, src) ==
    LET local_vlc_chroma == GetCodecFromString(kv)
        s1 == [s EXCEPT !.vlc_fourcc = IF kv # None /\ local_vlc_chroma # None
                                       THEN local_vlc_chroma ELSE src]
    IN  IF kd # None
        THEN [s1 EXCEPT !.forced_drm_fourcc = TRUE, !.drm_fourcc = kd]
        ELSE s1

(* for (c = 0; c < MAXHWBUF; c++) CreateFB, unwinding on failure            *)
(* mutant: the unwinding loop starts one buffer late *)
UnwindCreated_SkipFirst(m, c) == DestroyRange(m, 1, c)

(* for (c2 = 0; c2 < c; c2++) DestroyFB(vd, c2) *)
UnwindCreated(m, c) == DestroyRange(m, 0, c)

RECURSIVE CreateLoop(_, _, _, _)
(* the body of the loop after CreateFB(vd, c) returned r                   *)
CreateLoopStep(r, c, fail, enum_unsigned) ==
    IF r.ret # "drvSuccess"
    THEN [m |-> UnwindCreated(r.m, c), ret |-> r.ret]
    ELSE CreateLoop(r.m, c + 1, fail, enum_unsigned)

CreateLoop(m, c, fail, enum_unsigned) ==
    IF c >= MAXHWBUF THEN [m |-> m, ret |-> "drvSuccess"]
    ELSE CHOOSE x \in { CreateLoopStep(r, c, fail, enum_unsigned) :
                        r \in {CreateFB(m, c, IF fail.k = c THEN fail.step ELSE "none",
                                        enum_unsigned)} } : TRUE

(* mutant: every plane pointer is set to the start of the mapping *)
OpenPicture_NoOffsets(s) ==
    [live |-> TRUE,
     p |-> [i \in Planes |-> [p_pixels |-> [base |-> s.map[0], off |-> 0],
                              i_lines |-> s.height, i_pitch |-> s.stride]]]

(* sys->picture->p[i].p_pixels = sys->map[0] + sys->offsets[i], ... *)
OpenPicture(s) ==
    [live |-> TRUE,
     p |-> [i \in Planes |-> [p_pixels |-> [base |-> s.map[0], off |-> s.offsets[i]],
                              i_lines |-> s.height, i_pitch |-> s.stride]]]

Finish(m, cat, pic, v, r, h) ==
    /\ sys' = m.sys
    /\ drm' = m.drm
    /\ io' = m.io
    /\ fourccmatching' = cat
    /\ picture' = pic
    /\ vd' = v
    /\ ret' = r
    /\ hist' = h

(* Open once the negotiation neg has succeeded                              *)
OpenBuffers(neg, v0, h1) ==
    \E fail \in Fails :
    \E enum_unsigned \in IF fail.step = "create" THEN BOOLEAN ELSE {TRUE} :
    \E r \in {CreateLoop([sys |-> [neg.sys EXCEPT !.width = v0.width,
                                                  !.height = v0.height],
                          drm |-> drm, io |-> <<>>],
                         0, fail, enum_unsigned)} :
        IF r.ret # "drvSuccess"
        THEN Finish(r.m, neg.cat, pictureNone,
                    [v0 EXCEPT !.status = "failed"], Ret("Open", r.ret), h1)
        ELSE IF fail.step = "picture"
        THEN Finish(r.m, neg.cat, pictureNone,
                    [v0 EXCEPT !.status = "failed"], Ret("Open", "VLC_EGENERIC"), h1)
        ELSE Finish([r.m EXCEPT !.sys.picture = 1], neg.cat, OpenPicture(r.m.sys),
                    [v0 EXCEPT !.status = "open", !.ops = TRUE],
                    Ret("Open", "VLC_SUCCESS"), h1)

(* Open once the window is known to be a KMS window                        *)
OpenNegotiate(s0, v0, h1) ==
    \E neg \in {ChromaNegotiation(s0, fourccmatching, v0.window)} :
        IF ~neg.ret
        THEN \E c \in {CloseBody([sys |-> neg.sys, drm |-> drm, io |-> <<>>],
                                 pictureNone)} :
                 Finish(c.m, neg.cat, c.picture,
                        [v0 EXCEPT !.status = "failed"], Ret("Open", "VLC_EGENERIC"), h1)
        ELSE OpenBuffers(neg, v0, h1)

Open ==
    /\ vd.status = "none"
    /\ hist.opens < MaxOpens
    /\ \E o \in Options, w \in Windows, dim \in Dims :
       \E v0 \in {[vdNone EXCEPT !.kms_vlc = o.kv, !.kms_drm = o.kd, !.source = o.src,
                                 !.window = w, !.width = dim[1], !.height = dim[2]]},
          h1 \in {[opens |-> hist.opens + 1, committed |-> <<>>,
                  undefined |-> hist.undefined \/ w.crtc_index < 0]} :
        IF ~w.kms
        THEN Finish([sys |-> sysZero, drm |-> drm, io |-> <<>>],
                    fourccmatching, pictureNone,
                    [v0 EXCEPT !.status = "failed"], Ret("Open", "VLC_EGENERIC"), h1)
        ELSE \E s0 \in {OpenOptions(sysZero, o.kv, o.kd, o.src)} :
                 OpenNegotiate(s0, v0, h1)

(* the releases of this session's buffers that the device may reject:      *)
(* none, or one of those of a buffer the loop has not yet finished with    *)
RejectBuffers == {MAXHWBUF - 2}
CloseRejects ==
    {{}} \cup { {[call |-> "munmap", arg |-> sys.map[k]]} : k \in RejectBuffers }
         \cup { {[call |-> "RmFB", arg |-> sys.fb[k]]} : k \in RejectBuffers }
         \cup { {[call |-> "DESTROY_DUMB", arg |-> sys.handle[k]]} : k \in RejectBuffers }

Close ==
    /\ vd.status = "open"
    /\ vd.ops
    /\ \E rej \in CloseRejects :
       \E c \in {CloseBody([sys |-> sys, drm |-> [drm EXCEPT !.reject = rej],
                            io |-> <<>>], picture)} :
           Finish([c.m EXCEPT !.drm.reject = {}], fourccmatching, c.picture,
                  [vd EXCEPT !.status = "closed"], Ret("Close", "void"), hist)

(* picture_Copy(sys->picture, pic): the pixels land where p_pixels point    *)
Prepare ==
    /\ vd.status = "open"
    /\ vd.ops
    /\ io' = <<Call("picture_Copy", picture.p[0].p_pixels.base, 0, picture.live)>>
    /\ ret' = Ret("Prepare", "void")
    /\ UNCHANGED <<fourccmatching, sys, picture, drm, vd, hist>>

CommitResults == {"ok", "EINVAL", "EBUSY"}

(* mutant: the ring wraps one buffer early *)
DisplayAdvance_ShortRing(s) ==
    [s EXCEPT !.front_buf = (s.front_buf + 1) % (MAXHWBUF - 1)]

(* sys->front_buf++; sys->front_buf %= MAXHWBUF *)
DisplayAdvance(s) == [s EXCEPT !.front_buf = (s.front_buf + 1) % MAXHWBUF]

(* mutant: the early return after a failed commit is missing *)
DisplayState_NoReturn(s, ok) == DisplayAdvance(s)

(* if (ret != drvSuccess) return; else advance *)
DisplayState(s, ok) == IF ~ok THEN s ELSE DisplayAdvance(s)

(* mutant: the picture keeps pointing at the buffer just committed *)
DisplayRepoint_Stale(pic, s) == pic

(* p[i].p_pixels = sys->map[sys->front_buf] + sys->offsets[i] *)
DisplayRepoint(pic, s) ==
    [pic EXCEPT !.p = [i \in Planes |->
        [pic.p[i] EXCEPT !.p_pixels = [base |-> s.map[s.front_buf],
                                       off |-> s.offsets[i]]]]]

(* assert(ret != -EINVAL): aborts unless the build defines NDEBUG *)
AssertAborts(res, ndebug) == res = "EINVAL" /\ ~ndebug

Display ==
    /\ vd.status = "open"
    /\ vd.ops
    /\ \E res \in CommitResults, ndebug \in BOOLEAN :
        LET fbid == sys.fb[sys.front_buf]
            ok == res = "ok" /\ fbid \in FbIds(drm)
            call == <<Call("SetPlane", [plane_id |-> sys.plane_id, fb |-> fbid], 0, ok)>>
            s1 == DisplayState(sys, ok)
        IN
        IF ok
        THEN /\ Len(hist.committed) < MaxCommits
             /\ Finish([sys |-> s1, drm |-> [drm EXCEPT !.plane_fb = fbid], io |-> call],
                       fourccmatching, DisplayRepoint(picture, s1), vd,
                       Ret("Display", "void"),
                       [hist EXCEPT !.committed = Append(@, fbid)])
        ELSE IF AssertAborts(res, ndebug)
        THEN Finish([sys |-> sys, drm |-> drm, io |-> call], fourccmatching, picture,
                    [vd EXCEPT !.status = "aborted"], Ret("Display", "abort"), hist)
        ELSE Finish([sys |-> s1, drm |-> drm, io |-> call], fourccmatching, picture,
                    vd, Ret("Display", "void"), hist)

(* the vout_display_t is deleted; sys, allocated with vlc_obj_calloc on it, *)
(* goes with it                                                             *)
Detach ==
    /\ vd.status \in {"failed", "closed"}
    /\ Finish([sys |-> sysZero, drm |-> drm, io |-> <<>>], fourccmatching,
              pictureNone, vdNone, Ret("none", "none"), [hist EXCEPT !.committed = <<>>])

Next == Open \/ Close \/ Prepare \/ Display \/ Detach

Spec == Init /\ [][Next]_vars

(* ------------------- CreateFB over wider dimensions --------------------- *)
(* A second specification applies CreateFB, buffer after buffer as Open    *)
(* does, to a sys holding any of these chromas and dimensions, all device  *)
(* calls succeeding.  The dimensions are positive and below 2^31, and so   *)
(* is every value the code computes from them.                             *)
LayoutFourccs == {"NV12", "P010", "P012", "P016", "XR24", "AR24", "RG16", "YUYV"}
LayoutDims ==
    { <<640, 480>>, <<1, 1>>, <<1920, 1080>>, <<4096, 2160>>,
      <<16, 8388608>>, <<16, 8388624>> }

InitLayout ==
    /\ fourccmatching = fourccmatchingInit
    /\ \E f \in LayoutFourccs, d \in LayoutDims :
           sys = [sysZero EXCEPT !.drm_fourcc = f, !.width = d[1], !.height = d[2]]
    /\ picture = pictureNone
    /\ drm = drmInit
    /\ vd = vdNone
    /\ io = <<>>
    /\ ret = Ret("none", "none")
    /\ hist = histInit

(* int ret = CreateFB(vd, c) for the next c *)
CreateNext ==
    /\ ret.val \in {"none", "drvSuccess"}
    /\ Cardinality(drm.dumb) < MAXHWBUF
    /\ \E r \in {CreateFB([sys |-> sys, drm |-> drm, io |-> <<>>],
                          Cardinality(drm.dumb), "none", TRUE)} :
           /\ sys' = r.m.sys
           /\ drm' = r.m.drm
           /\ io' = r.m.io
           /\ ret' = Ret("CreateFB", r.ret)
    /\ UNCHANGED <<fourccmatching, picture, vd, hist>>

LayoutSpec == InitLayout /\ [][CreateNext]_vars

(* =============================== claims ================================= *)
Releases == {"munmap", "RmFB", "DESTROY_DUMB"}
IoCalls(name) == {i \in 1 .. Len(io) : io[i].call = name}
IoOk(name) == {i \in IoCalls(name) : io[i].ok}
OpenReturned(val) == ret.op = "Open" /\ ret.val = val

(* buffer i of the session is fully constructed on the device *)
BufferLive(i) ==
    /\ sys.handle[i] \in drm.dumb
    /\ [id |-> sys.fb[i], handle |-> sys.handle[i]] \in drm.fbs
    /\ [addr |-> sys.map[i], handle |-> sys.handle[i]] \in drm.maps

FullyConstructed ==
    /\ \A i \in Buffers : BufferLive(i)
    /\ \A i, j \in Buffers : i # j => sys.fb[i] # sys.fb[j]

(* C1: whenever Open returns success exactly MAXHWBUF buffers were created, *)
(* each has a live handle, framebuffer object and mapping, the framebuffer *)
(* ids are pairwise distinct, and Prepare and Display only ever run in     *)
(* such a state.                                                           *)
C1_OpenFullyConstructed ==
    /\ OpenReturned("VLC_SUCCESS") =>
          /\ FullyConstructed
          /\ Cardinality(IoOk("CREATE_DUMB")) = MAXHWBUF
          /\ Cardinality(IoOk("AddFB2")) = MAXHWBUF
          /\ Cardinality(IoOk("mmap")) = MAXHWBUF
    /\ vd.status = "open" => FullyConstructed
    /\ ret.op \in {"Prepare", "Display"} => FullyConstructed

C1_Witness ==
    /\ OpenReturned("VLC_SUCCESS")
    /\ hist.opens = 2
    /\ Cardinality(drm.dumb) > MAXHWBUF

(* resources the device handed out during the handler that ran last *)
Made(name) == {io[i].res : i \in IoOk(name)}

NoneRejected == \A i \in 1 .. Len(io) : io[i].call \in Releases => io[i].res >= 0

(* C3: every unmap, framebuffer unbind and device-memory free issued by    *)
(* Open or Close targets a resource that is live, and once the session is  *)
(* over nothing it created is still live.                                  *)
C3_ReleasesTargetLive ==
    /\ \A i \in 1 .. Len(io) : io[i].call \in Releases => (io[i].ok \/ io[i].res < 0)
    /\ (ret.op = "Close" /\ NoneRejected) => \A i \in Buffers : ~BufferLive(i)
    /\ (vd.status \in {"failed", "closed"} /\ NoneRejected) =>
          /\ Made("CREATE_DUMB") \cap drm.dumb = {}
          /\ Made("AddFB2") \cap FbIds(drm) = {}
          /\ Made("mmap") \cap MapAddrs(drm) = {}

(* the planes the scan of this window reaches and does not skip *)
RECURSIVE ScannedFrom(_, _)
ScannedFrom(w, c) ==
    IF c > Len(w.plane_res) THEN {}
    ELSE IF ~(w.plane_res[c].ok /\ Len(w.plane_res[c].formats) > 0) THEN {}
    ELSE (IF CrtcBitTest(w.plane_res[c], w.crtc_index, w.shiftUB) THEN {c} ELSE {})
         \cup ScannedFrom(w, c + 1)

Scanned(w) == IF w.kms /\ w.resources /\ ~w.plane_res_null THEN ScannedFrom(w, 1) ELSE {}
Advertises(w, c, f) == \E i \in 1 .. Len(w.plane_res[c].formats) : w.plane_res[c].formats[i] = f

(* C4: with a forced DRM chroma that no plane scanned in this Open         *)
(* advertises, Open fails with VLC_EGENERIC and issues no CREATE_DUMB.     *)
C4_ForcedUnavailableFails ==
    (/\ ret.op = "Open"
     /\ vd.kms_drm # None
     /\ \A c \in Scanned(vd.window) : ~Advertises(vd.window, c, vd.kms_drm))
    => /\ ret.val = "VLC_EGENERIC"
       /\ IoCalls("CREATE_DUMB") = {}

C4_Witness ==
    /\ ret.op = "Open"
    /\ vd.kms_drm = "NV12"
    /\ Scanned(vd.window) # {}
    /\ \A c \in Scanned(vd.window) : ~Advertises(vd.window, c, vd.kms_drm)
    /\ fourccmatching[4].present
    /\ ret.val = "VLC_EGENERIC"

DisplayFailed(r, l) == r.op = "Display" /\ Len(l) = 1 /\ ~l[1].ok

(* C5: a Display whose plane commit fails leaves front_buf and the         *)
(* picture's plane pointers as they were.                                  *)
C5_FailedCommitKeepsFront ==
    [][DisplayFailed(ret', io') =>
          /\ sys'.front_buf = sys.front_buf
          /\ picture'.p = picture.p]_vars

C5_Witness ==
    /\ DisplayFailed(ret, io)
    /\ vd.status = "open"
    /\ sys.front_buf = 2
    /\ picture.p[1].p_pixels = [base |-> sys.map[2], off |-> sys.offsets[1]]

(* C6: a rejected plane commit never aborts or tears down the session:     *)
(* Display returns, the buffers stay live and the session stays open.      *)
C6_FailedCommitKeepsSession ==
    DisplayFailed(ret, io) =>
        /\ ret.val = "void"
        /\ vd.status = "open"
        /\ FullyConstructed

(* the dumb buffer behind a framebuffer id / behind a mapped address *)
HandleOfFb(id) == {f.handle : f \in {x \in drm.fbs : x.id = id}}
HandleOfMap(addr) == {x.handle : x \in {y \in drm.maps : y.addr = addr}}
NCommitted == Len(hist.committed)
WriteTarget == HandleOfMap(picture.p[0].p_pixels.base)

(* C7: in an open session the buffer Prepare writes into is neither the    *)
(* buffer of the last successful commit nor that of the commit before it.  *)
C7_WriteTargetNotOnScreen ==
    vd.status = "open" =>
        /\ WriteTarget # {}
        /\ \A j \in 1 .. NCommitted :
              j >= NCommitted - 1 => HandleOfFb(hist.committed[j]) \cap WriteTarget = {}
        /\ NCommitted > 0 => HandleOfFb(drm.plane_fb) \cap WriteTarget = {}
        /\ ret.op = "Prepare" =>
              /\ io[1].ok
              /\ HandleOfMap(io[1].arg) = WriteTarget

C7_Witness ==
    /\ vd.status = "open"
    /\ ret.op = "Prepare"
    /\ NCommitted >= 2
    /\ drm.plane_fb = hist.committed[NCommitted]

(* C8: the j-th successful commit of a session commits the framebuffer of  *)
(* buffer (j-1) mod MAXHWBUF, and front_buf is the number of successful    *)
(* commits mod MAXHWBUF.                                                   *)
C8_RoundRobin ==
    vd.status \in {"open", "aborted"} =>
        /\ sys.front_buf \in Buffers
        /\ sys.front_buf = NCommitted % MAXHWBUF
        /\ \A j \in 1 .. NCommitted : hist.committed[j] = sys.fb[(j - 1) % MAXHWBUF]

C8_Witness ==
    /\ vd.status = "open"
    /\ NCommitted = MAXHWBUF + 1
    /\ hist.committed[MAXHWBUF + 1] = sys.fb[0]
    /\ sys.front_buf = 1

(* what was asked for, and what the table held when the tiers ran *)
Desired == IF vd.kms_vlc # None /\ GetCodecFromString(vd.kms_vlc) # None
           THEN vd.kms_vlc ELSE vd.source
ScanCompleted ==
    /\ vd.window.kms /\ vd.window.resources /\ vd.window.crtc_index >= 0
    /\ (vd.window.plane_res_null \/
        \A c \in 1 .. Len(vd.window.plane_res) :
            vd.window.plane_res[c].ok /\ Len(vd.window.plane_res[c].formats) > 0)
PresentOfFamily(yuv) == {c \in 1 .. ARRAY_SIZE :
                            fourccmatching[c].present /\ fourccmatching[c].isYUV = yuv}
First(S) == CHOOSE c \in S : \A d \in S : c <= d
DesiredPresent == \E c \in 1 .. ARRAY_SIZE :
                     fourccmatching[c].vlc = Desired /\ fourccmatching[c].present
Adopted(c) ==
    /\ sys.drm_fourcc = fourccmatching[c].drm
    /\ sys.vlc_fourcc = fourccmatching[c].vlc
    /\ sys.plane_id = fourccmatching[c].plane_id
    /\ IoCalls("CREATE_DUMB") # {}

(* C9: with no chroma forced, the source chroma not present and an entry   *)
(* of its family present, negotiation succeeds with the first present      *)
(* entry of that family.                                                   *)
C9_SameFamilyFallback ==
    (/\ ret.op = "Open"
     /\ ScanCompleted
     /\ vd.kms_vlc = None /\ vd.kms_drm = None
     /\ ~DesiredPresent
     /\ PresentOfFamily(IsYUV(Desired)) # {})
    => Adopted(First(PresentOfFamily(IsYUV(Desired))))

(* C10: with no DRM chroma forced, no present entry of the desired chroma's *)
(* family and a present entry of the other family, negotiation succeeds    *)
(* with the first present entry of the other family.                       *)
C10_OppositeFamilyFallback ==
    (/\ ret.op = "Open"
     /\ ScanCompleted
     /\ vd.kms_drm = None
     /\ PresentOfFamily(IsYUV(Desired)) = {}
     /\ PresentOfFamily(~IsYUV(Desired)) # {})
    => Adopted(First(PresentOfFamily(~IsYUV(Desired))))

NegotiationSucceeded == ret.op = "Open" /\ IoCalls("CREATE_DUMB") # {}

(* the scan of this Open did not fail, so the tiers were consulted         *)
TiersReached ==
    /\ vd.window.kms /\ vd.window.resources
    /\ (vd.window.plane_res_null \/
        \A c \in 1 .. Len(vd.window.plane_res) :
            vd.window.plane_res[c].ok /\ Len(vd.window.plane_res[c].formats) > 0)
DesiredEntry == CHOOSE c \in 1 .. ARRAY_SIZE : fourccmatching[c].vlc = Desired

(* what a successful exact match leaves in sys                             *)
ExactSelection ==
    /\ sys.drm_fourcc = fourccmatching[DesiredEntry].drm
    /\ sys.plane_id = fourccmatching[DesiredEntry].plane_id
    /\ sys.vlc_fourcc = Desired
    /\ NegotiationSucceeded

(* C11 as stated: when no DRM chroma is forced and the catalog entry of    *)
(* the desired VLC chroma is marked present, negotiation returns exactly   *)
(* that entry's DRM chroma and plane id, whatever other entries are        *)
(* present.  Stated for the windows whose CRTC was found.                  *)
C11_ExactMatchFirst ==
    (/\ ret.op = "Open"
     /\ vd.window.kms /\ vd.window.resources /\ vd.window.crtc_index >= 0
     /\ vd.kms_drm = None
     /\ DesiredPresent)
    => ExactSelection

(* C11 amended: the same, for an Open in which every plane query of the    *)
(* scan succeeded.                                                         *)
C11_ExactMatchFirstAfterScan ==
    (/\ ret.op = "Open"
     /\ TiersReached
     /\ vd.kms_drm = None
     /\ DesiredPresent)
    => ExactSelection

C11_Witness ==
    /\ OpenReturned("VLC_SUCCESS")
    /\ vd.kms_drm = None
    /\ Desired = "NV12"
    /\ Len(vd.window.plane_res) = 2
    /\ vd.window.crtc_index = 0
    /\ Advertises(vd.window, 1, "XR24") /\ Advertises(vd.window, 2, "NV12")
    /\ fourccmatching[1].present /\ fourccmatching[1].plane_id = 31
    /\ sys.drm_fourcc = "NV12"
    /\ sys.plane_id = 32


(* the planes scanned in this Open that advertise the forced DRM chroma    *)
ForcedPlanes == {c \in Scanned(vd.window) : Advertises(vd.window, c, vd.kms_drm)}
CatalogVlc(drmcode) ==
    IF \E c \in 1 .. ARRAY_SIZE : fourccmatching[c].drm = drmcode
    THEN fourccmatching[CHOOSE c \in 1 .. ARRAY_SIZE : fourccmatching[c].drm = drmcode].vlc
    ELSE Desired
(* what a successful forced negotiation leaves in sys                      *)
ForcedSelection ==
    /\ sys.plane_id = vd.window.plane_res[First(ForcedPlanes)].plane_id
    /\ sys.drm_fourcc = vd.kms_drm
    /\ sys.forced_drm_fourcc
    /\ sys.vlc_fourcc = CatalogVlc(vd.kms_drm)

(* C12 as stated: with a forced DRM chroma, negotiation succeeds iff some  *)
(* CRTC-compatible plane scanned in this Open advertises that chroma, and  *)
(* then selects the first such plane, keeps the forced DRM chroma and      *)
(* takes the VLC chroma of the catalog entry with that DRM code.  Stated   *)
(* for the windows whose CRTC was found among the device's CRTCs.          *)
C12_ForcedIffAdvertised ==
    (ret.op = "Open" /\ vd.kms_drm # None /\ vd.window.crtc_index >= 0)
    => /\ NegotiationSucceeded <=> ForcedPlanes # {}
       /\ NegotiationSucceeded => ForcedSelection

(* C12 amended: the same, where success also needs every plane query of    *)
(* the scan to succeed.                                                    *)
C12_ForcedIffAdvertisedAndScanned ==
    (ret.op = "Open" /\ vd.kms_drm # None)
    => /\ NegotiationSucceeded <=> (TiersReached /\ ForcedPlanes # {})
       /\ NegotiationSucceeded => ForcedSelection

C12_Witness ==
    /\ NegotiationSucceeded
    /\ vd.kms_drm = "NV12"
    /\ vd.kms_vlc = None
    /\ hist.opens = 2
    /\ Len(vd.window.plane_res) = 2
    /\ ForcedPlanes = {2}
    /\ sys.plane_id = 32
    /\ sys.vlc_fourcc = "NV12"
    /\ fourccmatching[4].present /\ fourccmatching[4].plane_id = 31


(* the release steps of buffer b, at their places in the calls of Close    *)
ReleaseSteps(b) ==
    /\ io[3 * b + 1].call = "munmap" /\ io[3 * b + 1].arg = sys.map[b]
    /\ io[3 * b + 2].call = "RmFB" /\ io[3 * b + 2].arg = sys.fb[b]
    /\ io[3 * b + 3].call = "DESTROY_DUMB" /\ io[3 * b + 3].arg = sys.handle[b]

(* C13: Close issues, for every buffer 0 .. MAXHWBUF-1 in turn, munmap,    *)
(* RmFB and DESTROY_DUMB in that order, whichever of them fail, and        *)
(* reports no failure.                                                     *)
C13_CloseReleasesAll ==
    ret.op = "Close" =>
        /\ Len(io) = 3 * MAXHWBUF
        /\ \A b \in Buffers : ReleaseSteps(b)
        /\ ret.val = "void"
        /\ vd.status = "closed"

C13_Witness ==
    /\ ret.op = "Close"
    /\ ~io[3 * (MAXHWBUF - 2) + 1].ok
    /\ io[3 * (MAXHWBUF - 2) + 2].ok
    /\ \A i \in (3 * (MAXHWBUF - 1) + 1) .. (3 * MAXHWBUF) : io[i].ok
    /\ Cardinality(drm.maps) = 1


(* the device answered the plane-resource query with no planes, or the     *)
(* query failed                                                            *)
NoPlanes ==
    /\ vd.window.kms /\ vd.window.resources
    /\ (vd.window.plane_res_null \/ Len(vd.window.plane_res) = 0)

(* C14: in every Open of the process in which the device reports no planes *)
(* the catalog has no entry marked present, and with no DRM chroma forced  *)
(* Open fails in negotiation without a CREATE_DUMB.  Stated for the runs   *)
(* in which every window's CRTC was found.                                 *)
C14_NoPlanesEmptyCatalog ==
    (ret.op = "Open" /\ NoPlanes /\ ~hist.undefined)
    => /\ \A c \in 1 .. ARRAY_SIZE : ~fourccmatching[c].present
       /\ vd.kms_drm = None =>
             /\ ret.val = "VLC_EGENERIC"
             /\ IoCalls("CREATE_DUMB") = {}


(* the buffers Open had created when a CreateFB failed, and the device     *)
(* calls of the CreateFB that failed: those after the calls of the         *)
(* buffers created and before the calls that unwind them                   *)
NCreated == Cardinality(IoOk("mmap"))
FailedCreate == SubSeq(io, 4 * NCreated + 1, Len(io) - 3 * NCreated)
Shape(g) == [i \in 1 .. Len(g) |-> <<g[i].call, g[i].ok>>]
AllOrNothingShapes ==
    { << <<"CREATE_DUMB", FALSE>> >>,
      << <<"CREATE_DUMB", TRUE>>, <<"AddFB2", FALSE>>, <<"DESTROY_DUMB", TRUE>> >>,
      << <<"CREATE_DUMB", TRUE>>, <<"AddFB2", TRUE>>, <<"MAP_DUMB", FALSE>>,
         <<"RmFB", TRUE>>, <<"DESTROY_DUMB", TRUE>> >>,
      << <<"CREATE_DUMB", TRUE>>, <<"AddFB2", TRUE>>, <<"MAP_DUMB", TRUE>>,
         <<"mmap", FALSE>>, <<"RmFB", TRUE>>, <<"DESTROY_DUMB", TRUE>> >> }

(* C15: a CreateFB that fails stops at the device call that failed, undoes *)
(* the calls that succeeded before it in reverse order (RmFB, then         *)
(* DESTROY_DUMB) and leaves nothing of its buffer live.                    *)
C15_CreateFBAllOrNothing ==
    OpenReturned("drvFail") =>
        /\ Shape(FailedCreate) \in AllOrNothingShapes
        /\ \A i \in 1 .. Len(FailedCreate) :
              /\ FailedCreate[i].call = "DESTROY_DUMB" =>
                    FailedCreate[i].arg = FailedCreate[1].res
              /\ FailedCreate[i].call = "RmFB" =>
                    FailedCreate[i].arg = FailedCreate[2].res
        /\ ~BufferLive(NCreated)
        /\ sys.handle[NCreated] \notin drm.dumb


(* C16: whenever Open returns a failure, whatever the reason, no handle,   *)
(* framebuffer object or mapping created during that Open is live.         *)
C16_FailedOpenLeavesNothing ==
    (ret.op = "Open" /\ ret.val # "VLC_SUCCESS") =>
        /\ Made("CREATE_DUMB") \cap drm.dumb = {}
        /\ Made("AddFB2") \cap FbIds(drm) = {}
        /\ Made("mmap") \cap MapAddrs(drm) = {}


(* plane pointer i of the picture is map[front_buf] + offsets[i]           *)
PointsAtFront(pic, s) ==
    \A i \in Planes :
        pic.p[i].p_pixels = [base |-> s.map[s.front_buf], off |-> s.offsets[i]]

(* C17: after a successful Open and after every Display, successful or     *)
(* failed, every plane pointer of the picture is the mapping of buffer     *)
(* front_buf plus the plane's offset; Prepare changes neither front_buf,   *)
(* nor the pointers, nor the framebuffer bound to the plane.               *)
C17_PicturePointsAtFront ==
    [][/\ (vd'.status = "open" /\ ret'.op \in {"Open", "Display"})
            => PointsAtFront(picture', sys')
       /\ ret'.op = "Prepare"
            => /\ sys'.front_buf = sys.front_buf
               /\ picture'.p = picture.p
               /\ drm'.plane_fb = drm.plane_fb
               /\ PointsAtFront(picture', sys')]_vars

C17_Witness ==
    /\ vd.status = "open"
    /\ DisplayFailed(ret, io)
    /\ sys.front_buf = 1
    /\ sys.offsets[1] > 0
    /\ drm.plane_fb = sys.fb[0]
    /\ picture.p[1].p_pixels = [base |-> sys.map[1], off |-> sys.offsets[1]]


(* a plane scanned in this Open (so one that passed the CRTC bit test)     *)
(* with this id advertises this DRM chroma                                 *)
ScannedPlaneOffers(w, id, drmcode) ==
    \E c \in Scanned(w) : w.plane_res[c].plane_id = id /\ Advertises(w, c, drmcode)

(* C18: whenever negotiation succeeds the selected plane was scanned in    *)
(* this Open, passed the CRTC bit test and advertises the negotiated DRM   *)
(* chroma; and every present marking an Open adds comes from such a plane. *)
(* Stated for the runs in which every window's CRTC was found.             *)
C18_SelectedPlaneScanned ==
    [][(ret'.op = "Open" /\ ~hist'.undefined) =>
          /\ NegotiationSucceeded' =>
                ScannedPlaneOffers(vd'.window, sys'.plane_id, sys'.drm_fourcc)
          /\ \A c \in 1 .. ARRAY_SIZE :
                (fourccmatching'[c].present /\ ~fourccmatching[c].present) =>
                    ScannedPlaneOffers(vd'.window, fourccmatching'[c].plane_id,
                                       fourccmatching'[c].drm)]_vars


(* the planes scanned by the Open that led to this state which advertise   *)
(* this DRM chroma: the CheckFourCCList calls made with it, in scan order  *)
Offering(drmcode) ==
    IF ret.op = "Open"
    THEN {p \in Scanned(vd.window) : Advertises(vd.window, p, drmcode)}
    ELSE {}

(* C19: CheckFourCCList is first-writer-wins and monotonic: in every step, *)
(* an entry already present is unchanged; an entry not yet present becomes *)
(* present with the id of the first plane the scan offers its DRM chroma   *)
(* from, and is unchanged when there is none; the codes of an entry never  *)
(* change.                                                                 *)
C19_FirstWriterWins ==
    [][\A c \in 1 .. ARRAY_SIZE :
          /\ fourccmatching'[c].drm = fourccmatching[c].drm
          /\ fourccmatching'[c].vlc = fourccmatching[c].vlc
          /\ fourccmatching'[c].isYUV = fourccmatching[c].isYUV
          /\ fourccmatching[c].present => fourccmatching'[c] = fourccmatching[c]
          /\ ~fourccmatching[c].present =>
                IF Offering(fourccmatching[c].drm)' # {}
                THEN /\ fourccmatching'[c].present
                     /\ fourccmatching'[c].plane_id =
                           vd'.window.plane_res[First(Offering(fourccmatching[c].drm)')].plane_id
                ELSE fourccmatching'[c] = fourccmatching[c]]_vars

C19_Witness ==
    /\ ret.op = "Open"
    /\ hist.opens = 2
    /\ Offering("NV12") = {2}
    /\ Offering("XR24") = {1}
    /\ Offering("AR24") = {1}
    /\ fourccmatching[4].present /\ fourccmatching[4].plane_id = 31
    /\ fourccmatching[1].present /\ fourccmatching[1].plane_id = 31
    /\ \A c \in 1 .. ARRAY_SIZE : fourccmatching[c].present => c \in {1, 4}


(* the query of some plane of this window fails                            *)
PlaneQueryFails ==
    /\ vd.window.kms /\ vd.window.resources /\ ~vd.window.plane_res_null
    /\ \E c \in 1 .. Len(vd.window.plane_res) : ~vd.window.plane_res[c].ok

(* C20: when the query of a plane fails during the scan, Open fails with   *)
(* VLC_EGENERIC and creates no buffer, whatever earlier planes marked      *)
(* present and whether or not a forced DRM chroma was bound already.       *)
C20_PlaneQueryFailureFailsOpen ==
    (ret.op = "Open" /\ PlaneQueryFails) =>
        /\ ret.val = "VLC_EGENERIC"
        /\ vd.status = "failed"
        /\ IoCalls("CREATE_DUMB") = {}
        /\ IoCalls("AddFB2") = {}
        /\ IoCalls("mmap") = {}

C20_Witness ==
    /\ ret.op = "Open"
    /\ PlaneQueryFails
    /\ ~hist.undefined
    /\ vd.kms_drm = "NV12"
    /\ Len(vd.window.plane_res) = 2
    /\ vd.window.plane_res[1].ok /\ ~vd.window.plane_res[2].ok
    /\ sys.plane_id = 31
    /\ fourccmatching[4].present
    /\ ret.val = "VLC_EGENERIC"


(* the call of this name made by the CreateFB that ran last *)
CallOf(name) == io[CHOOSE i \in 1 .. Len(io) : io[i].call = name]
AlignedHeight == VlcAlign(sys.height, tile_height)
(* v is unit * factor, for a positive unit, without forming the product    *)
IsProduct(v, unit, factor) == v % unit = 0 /\ v \div unit = factor
(* the layout of the two-plane chromas, stride being the stride claimed    *)
TwoPlaneLayout(stride) ==
    /\ sys.stride = stride
    /\ IsProduct(sys.offsets[1], stride, AlignedHeight)
    /\ IsProduct(CallOf("CREATE_DUMB").arg.height, AlignedHeight, 2)
    /\ CallOf("AddFB2").arg.nplanes = 2
    /\ CallOf("AddFB2").arg.offsets[1] = sys.offsets[1]
SinglePlaneLayout ==
    /\ IsProduct(sys.stride, tile_width, VlcAlign(4 * sys.width, tile_width) \div tile_width)
    /\ CallOf("CREATE_DUMB").arg.height = AlignedHeight
    /\ CallOf("AddFB2").arg.nplanes = 1
    /\ sys.offsets[1] = 0

(* C21: for every width and height CreateFB computes, for NV12, stride =   *)
(* align(width, 512), offsets[1] = stride * align(height, 16), allocation  *)
(* height 2 * align(height, 16) and two planes bound; for P010, P012 and   *)
(* P016 the same with stride = align(2 * width, 512); for every other      *)
(* chroma stride = align(4 * width, 512), allocation height                *)
(* align(height, 16) and one plane bound at offset 0; and every buffer is  *)
(* bound with that stride and those offsets.                               *)
C21_LayoutAsDocumented ==
    ret.op = "CreateFB" =>
        /\ CallOf("AddFB2").arg.pitch = sys.stride
        /\ CallOf("AddFB2").arg.offsets[0] = 0
        /\ IF sys.drm_fourcc = "NV12"
           THEN TwoPlaneLayout(VlcAlign(sys.width, tile_width))
           ELSE IF TwoPlane16(sys.drm_fourcc)
           THEN TwoPlaneLayout(VlcAlign(2 * sys.width, tile_width))
           ELSE SinglePlaneLayout


====
